---- MODULE Spec2Model ----
(***************************************************************************)
(* Asynchronous job lifecycle of the backend: submission (src/main.py),    *)
(* the arq worker handlers (src/worker.py), the Redis result store with    *)
(* per-key expiry, and consume-on-read polling (src/main.py).              *)
(*                                                                         *)
(* Text is modelled as a sequence of Unicode code points and a stored      *)
(* Redis value as a sequence of bytes, so that str.strip(), the UTF-8      *)
(* encoding done by redis.set and result.decode('utf-8') are computed.     *)
(***************************************************************************)
EXTENDS Integers, Sequences, FiniteSets, TLC

\* ---------------------------------------------------------------- bounds
\* Worker crashes (each one leads to a redelivery of the job by the queue).
MaxCrashes == 1
\* Seconds of wall-clock time that pass in one Tick step.
TickSeconds == 150

\* ------------------------------------------------------ program constants
\* ex=300 on every redis.set of a result key.
ResultTTL == 300

\* ------------------------------------------------------------- universes
\* Values uuid.uuid4() hands out, as opaque identifiers.
JobIds == {"A", "B"}
Workers == {"w1", "w2"}
Pollers == {"p1", "p2"}
\* Request payloads (item.dict()).
Items == {"x"}
Kinds == {"run_transcript_analysis", "run_icebreaker_generation"}

None == "None"

\* -------------------------------------------------------------- text ops
\* Characters str.strip() removes (Unicode whitespace below U+0100).
IsSpace(c) == c \in {9, 10, 11, 12, 13, 28, 29, 30, 31, 32, 133, 160}

RECURSIVE lstrip(_)
lstrip(s) == IF s # <<>> /\ IsSpace(Head(s)) THEN lstrip(Tail(s)) ELSE s

RECURSIVE rstrip(_)
rstrip(s) ==
    IF s # <<>> /\ IsSpace(s[Len(s)]) THEN rstrip(SubSeq(s, 1, Len(s) - 1)) ELSE s

\* response.text.strip()
strip(s) == rstrip(lstrip(s))

\* UTF-8 encoding of one code point below U+0800.
EncodeChar(c) == IF c < 128 THEN <<c>> ELSE <<192 + (c \div 64), 128 + (c % 64)>>

\* str -> bytes, as redis.set encodes a str value.
RECURSIVE encode(_)
encode(s) == IF s = <<>> THEN <<>> ELSE EncodeChar(Head(s)) \o encode(Tail(s))

\* bytes -> str, result.decode('utf-8').
RECURSIVE decode(_)
decode(b) ==
    IF b = <<>> THEN <<>>
    ELSE IF b[1] < 128 THEN <<b[1]>> \o decode(Tail(b))
    ELSE <<(b[1] - 192) * 64 + (b[2] - 128)>> \o decode(Tail(Tail(b)))

\* "Error: "
ErrorPrefix == <<69, 114, 114, 111, 114, 58, 32>>
\* "Worker not initialized"
NotInitialized ==
    <<87, 111, 114, 107, 101, 114, 32, 110, 111, 116, 32,
      105, 110, 105, 116, 105, 97, 108, 105, 122, 101, 100>>

\* f"Error: {e}"
ErrorBody(e) == ErrorPrefix \o e

\* Texts response.text can be: whitespace only, a padded non-ASCII body.
Texts == {<<32>>, <<32, 233, 10>>}
\* str(e) of the exceptions the external calls raise:
\* generate_content raising ("q"), response.text raising ("v"),
\* the insert into the archival table raising ("d").
GenerateError == <<113>>
TextError == <<118>>
InsertError == <<100>>

\* ------------------------------------------------------------ store keys
\* Faulty variant of key: one key for every job.
key_shared(job_id) == <<"result:", "A">>

\* f"result:{job_id}"
key(job_id) == <<"result:", job_id>>
Keys == {key(j) : j \in JobIds}

\* What queue.get returns for a missing (or expired) key.
Absent == [has |-> FALSE]

\* Python truthiness of what queue.get returned: None and b"" are falsy.
Truthy(result) == result.has /\ result.val # <<>>

VARIABLES
    pool,              \* identifiers uuid.uuid4() draws from in this run
    jobs,              \* job_id -> what the submit request did with it
    queue,             \* job_ids enqueued and not yet finished by a worker
    transcript_model,  \* worker module global: TRUE when initialised
    icebreaker_model,  \* worker module global: TRUE when initialised
    supabase,          \* worker module global: TRUE when initialised
    wk,                \* worker -> position inside the handler
    store,             \* Redis: key -> value with remaining time to live
    archive,           \* job_id -> rows inserted in the archival table
    pl,                \* poller -> position inside get_job_result
    out,               \* response the last step returned to a poll, if any
    crashes,           \* number of worker crashes so far
    last,              \* history: job_id -> last event on its result key
    attempts           \* history: job_id -> archival inserts attempted

vars == <<pool, jobs, queue, transcript_model, icebreaker_model, supabase, wk,
          store, archive, pl, out, crashes, last, attempts>>

NoJob == [status |-> "none", kind |-> None, item |-> None]
\* History fields: rows and writes are the job's archival rows and result
\* writes when this run started.
IdleWorker == [pc |-> "idle", job_id |-> None, output |-> <<>>, e |-> <<>>,
               rows |-> 0, writes |-> 0]
NoResponse == [status |-> None]
IdlePoller == [pc |-> "idle", job_id |-> None, result |-> Absent]

\* The runs explored: one submission with up to MaxCrashes worker crashes,
\* or one submission per identifier with workers that do not crash.
Init ==
    /\ \/ pool = {"A"} /\ crashes = 0
       \/ pool = JobIds /\ crashes = MaxCrashes
    /\ jobs = [j \in JobIds |-> NoJob]
    /\ queue = {}
    /\ transcript_model \in BOOLEAN
    /\ icebreaker_model \in BOOLEAN
    /\ icebreaker_model => transcript_model
    /\ supabase \in BOOLEAN
    /\ wk = [w \in Workers |-> IdleWorker]
    /\ store = [k \in Keys |-> Absent]
    /\ archive = [j \in JobIds |-> <<>>]
    /\ pl = [p \in Pollers |-> IdlePoller]
    /\ out = NoResponse
    /\ last = [j \in JobIds |->
                 [ev |-> "none", w |-> "none", body |-> <<>>, n |-> 0, served |-> 0]]
    /\ attempts = [j \in JobIds |-> 0]

\* ------------------------------------------------------------ submission
\* Identifiers uuid.uuid4() can still return: those not handed out before.
uuid4 == {j \in pool : jobs[j].status = "none"}

\* Faulty variant of enqueue_job: the job reaches the queue although the call raised.
enqueue_job_leaky(fn, job_id, item) ==
    \/ /\ queue' = queue \cup {job_id}
       /\ jobs' = [jobs EXCEPT ![job_id] =
                      [status |-> "queued", kind |-> fn, item |-> item]]
    \/ /\ queue' = queue \cup {job_id}
       /\ jobs' = [jobs EXCEPT ![job_id] =
                      [status |-> "error", kind |-> fn, item |-> item]]

\* queue.enqueue_job(fn, job_id, item.dict()) inside the try of a submit
\* endpoint: acknowledged, or raising because the queue is unavailable.
enqueue_job(fn, job_id, item) ==
    \/ /\ queue' = queue \cup {job_id}
       /\ jobs' = [jobs EXCEPT ![job_id] =
                      [status |-> "queued", kind |-> fn, item |-> item]]
    \/ /\ queue' = queue
       /\ jobs' = [jobs EXCEPT ![job_id] =
                      [status |-> "error", kind |-> fn, item |-> item]]

queue_transcript_analysis(item) ==
    /\ \E job_id \in uuid4 : enqueue_job("run_transcript_analysis", job_id, item)
    /\ out' = NoResponse
    /\ UNCHANGED <<pool, transcript_model, icebreaker_model, supabase, wk, store,
                   archive, pl, crashes, last, attempts>>

queue_icebreaker_generation(item) ==
    /\ \E job_id \in uuid4 : enqueue_job("run_icebreaker_generation", job_id, item)
    /\ out' = NoResponse
    /\ UNCHANGED <<pool, transcript_model, icebreaker_model, supabase, wk, store,
                   archive, pl, crashes, last, attempts>>

\* --------------------------------------------------------------- workers
\* redis.set(f"result:{job_id}", text, ex=ttl). History fields of the entry:
\* age (seconds since the write), src (the handler path that wrote it),
\* job (the job whose handler wrote it), run (the write's number for the job).
redis_set(job_id, text, ttl, src) ==
    /\ store' = [store EXCEPT ![key(job_id)] =
                    [has |-> TRUE, val |-> encode(text), ttl |-> ttl, age |-> 0,
                     src |-> src, job |-> job_id, run |-> last[job_id].n + 1]]
    /\ last' = [last EXCEPT ![job_id] =
                   [ev |-> src, w |-> src, body |-> text, n |-> @.n + 1,
                    served |-> 0]]

\* The arq worker takes a job that no worker is running.
Dequeue(w) ==
    /\ wk[w].pc = "idle"
    /\ \E j \in queue :
          /\ \A v \in Workers : wk[v].job_id # j
          /\ wk' = [wk EXCEPT ![w] = [IdleWorker EXCEPT !.pc = "start", !.job_id = j,
                                                      !.rows = Len(archive[j]),
                                                      !.writes = last[j].n]]
    /\ out' = NoResponse
    /\ UNCHANGED <<pool, jobs, queue, transcript_model, icebreaker_model, supabase,
                   store, archive, pl, crashes, last, attempts>>

\* Faulty variant of CheckInitialized: the archival sink is not checked.
CheckInitialized_only_model(w, model) ==
    /\ wk[w].pc = "start"
    /\ IF ~model
       THEN /\ redis_set(wk[w].job_id, ErrorBody(NotInitialized), ResultTTL, "uninit")
            /\ wk' = [wk EXCEPT ![w].pc = "done", ![w].output = <<>>]
       ELSE /\ wk' = [wk EXCEPT ![w].pc = "generate"]
            /\ UNCHANGED <<store, last>>
    /\ out' = NoResponse
    /\ UNCHANGED <<pool, jobs, queue, transcript_model, icebreaker_model, supabase,
                   archive, pl, crashes, attempts>>

\* if model is None or supabase is None: set the error result and return.
CheckInitialized(w, model) ==
    /\ wk[w].pc = "start"
    /\ IF ~model \/ ~supabase
       THEN /\ redis_set(wk[w].job_id, ErrorBody(NotInitialized), ResultTTL, "uninit")
            /\ wk' = [wk EXCEPT ![w].pc = "done", ![w].output = <<>>]
       ELSE /\ wk' = [wk EXCEPT ![w].pc = "generate"]
            /\ UNCHANGED <<store, last>>
    /\ out' = NoResponse
    /\ UNCHANGED <<pool, jobs, queue, transcript_model, icebreaker_model, supabase,
                   archive, pl, crashes, attempts>>

\* Faulty variant of Generate: the result is written without the archival insert.
Generate_skips_insert(w) ==
    /\ wk[w].pc = "generate"
    /\ \/ wk' = [wk EXCEPT ![w].pc = "except", ![w].e = GenerateError]
       \/ wk' = [wk EXCEPT ![w].pc = "except", ![w].e = TextError]
       \/ \E text \in Texts :
             wk' = [wk EXCEPT ![w].pc = "set", ![w].output = strip(text)]
    /\ out' = NoResponse
    /\ UNCHANGED <<pool, jobs, queue, transcript_model, icebreaker_model, supabase,
                   store, archive, pl, crashes, last, attempts>>

\* response = model.generate_content(prompt); output = response.text.strip()
Generate(w) ==
    /\ wk[w].pc = "generate"
    /\ \/ wk' = [wk EXCEPT ![w].pc = "except", ![w].e = GenerateError]
       \/ wk' = [wk EXCEPT ![w].pc = "except", ![w].e = TextError]
       \/ \E text \in Texts :
             wk' = [wk EXCEPT ![w].pc = "insert", ![w].output = strip(text)]
    /\ out' = NoResponse
    /\ UNCHANGED <<pool, jobs, queue, transcript_model, icebreaker_model, supabase,
                   store, archive, pl, crashes, last, attempts>>

\* Faulty variant of Insert: a failed insert is swallowed and the result is
\* still written.
Insert_swallows_error(w, table) ==
    /\ wk[w].pc = "insert"
    /\ attempts' = [attempts EXCEPT ![wk[w].job_id] = @ + 1]
    /\ \/ /\ archive' = [archive EXCEPT ![wk[w].job_id] =
                            Append(@, [table |-> table,
                                       item |-> jobs[wk[w].job_id].item,
                                       analysis |-> wk[w].output])]
          /\ wk' = [wk EXCEPT ![w].pc = "set"]
       \/ /\ archive' = archive
          /\ wk' = [wk EXCEPT ![w].pc = "set"]
    /\ out' = NoResponse
    /\ UNCHANGED <<pool, jobs, queue, transcript_model, icebreaker_model, supabase,
                   store, pl, crashes, last>>

\* supabase.table(table).insert(data_to_insert).execute()
Insert(w, table) ==
    /\ wk[w].pc = "insert"
    /\ attempts' = [attempts EXCEPT ![wk[w].job_id] = @ + 1]
    /\ \/ /\ archive' = [archive EXCEPT ![wk[w].job_id] =
                            Append(@, [table |-> table,
                                       item |-> jobs[wk[w].job_id].item,
                                       analysis |-> wk[w].output])]
          /\ wk' = [wk EXCEPT ![w].pc = "set"]
       \/ /\ archive' = archive
          /\ wk' = [wk EXCEPT ![w].pc = "except", ![w].e = InsertError]
    /\ out' = NoResponse
    /\ UNCHANGED <<pool, jobs, queue, transcript_model, icebreaker_model, supabase,
                   store, pl, crashes, last>>

\* await redis.set(f"result:{job_id}", output, ex=300)
SetResult(w) ==
    /\ wk[w].pc = "set"
    /\ redis_set(wk[w].job_id, wk[w].output, ResultTTL, "ok")
    /\ wk' = [wk EXCEPT ![w].pc = "done", ![w].output = <<>>]
    /\ out' = NoResponse
    /\ UNCHANGED <<pool, jobs, queue, transcript_model, icebreaker_model, supabase,
                   archive, pl, crashes, attempts>>

\* History name of the handler path an exception came from.
FailureKind(e) ==
    IF e = GenerateError THEN "generate_raised"
    ELSE IF e = TextError THEN "text_raised" ELSE "insert_raised"

\* Faulty variant of SetError: the except branch only logs.
SetError_silent(w) ==
    /\ wk[w].pc = "except"
    /\ wk' = [wk EXCEPT ![w].pc = "done", ![w].output = <<>>]
    /\ out' = NoResponse
    /\ UNCHANGED <<pool, jobs, queue, transcript_model, icebreaker_model, supabase,
                   store, archive, pl, crashes, last, attempts>>

\* Faulty variant of SetError: the error result is written without ex=300.
SetError_no_expiry(w) ==
    /\ wk[w].pc = "except"
    /\ redis_set(wk[w].job_id, ErrorBody(wk[w].e), ResultTTL * ResultTTL,
                 FailureKind(wk[w].e))
    /\ wk' = [wk EXCEPT ![w].pc = "done", ![w].output = <<>>]
    /\ out' = NoResponse
    /\ UNCHANGED <<pool, jobs, queue, transcript_model, icebreaker_model, supabase,
                   archive, pl, crashes, attempts>>

\* except Exception as e: await redis.set(f"result:{job_id}", f"Error: {e}", ex=300)
SetError(w) ==
    /\ wk[w].pc = "except"
    /\ redis_set(wk[w].job_id, ErrorBody(wk[w].e), ResultTTL, FailureKind(wk[w].e))
    /\ wk' = [wk EXCEPT ![w].pc = "done", ![w].output = <<>>]
    /\ out' = NoResponse
    /\ UNCHANGED <<pool, jobs, queue, transcript_model, icebreaker_model, supabase,
                   archive, pl, crashes, attempts>>

\* The steps of one handler, for the jobs enqueued under its name.
Handler(w, fn, model, table) ==
    /\ wk[w].job_id # None
    /\ jobs[wk[w].job_id].kind = fn
    /\ \/ CheckInitialized(w, model)
       \/ Generate(w)
       \/ Insert(w, table)
       \/ SetResult(w)
       \/ SetError(w)

run_transcript_analysis(w) ==
    Handler(w, "run_transcript_analysis", transcript_model, "meeting_analysis")

run_icebreaker_generation(w) ==
    Handler(w, "run_icebreaker_generation", icebreaker_model, "icebreaker_analysis")

\* The handler returned: arq finishes the job and removes it from the queue.
Finish(w) ==
    /\ wk[w].pc = "done"
    /\ queue' = queue \ {wk[w].job_id}
    /\ wk' = [wk EXCEPT ![w] = IdleWorker]
    /\ out' = NoResponse
    /\ UNCHANGED <<pool, jobs, transcript_model, icebreaker_model, supabase, store,
                   archive, pl, crashes, last, attempts>>

\* Faulty variant of Crash: the job of the dead worker is lost.
Crash_drops_job(w) ==
    /\ wk[w].pc # "idle"
    /\ crashes < MaxCrashes
    /\ crashes' = crashes + 1
    /\ queue' = queue \ {wk[w].job_id}
    /\ wk' = [wk EXCEPT ![w] = IdleWorker]
    /\ out' = NoResponse
    /\ UNCHANGED <<pool, jobs, transcript_model, icebreaker_model, supabase,
                   store, archive, pl, last, attempts>>

\* The worker process dies inside a job: the job stays queued and is
\* delivered again (at-least-once delivery).
Crash(w) ==
    /\ wk[w].pc # "idle"
    /\ crashes < MaxCrashes
    /\ crashes' = crashes + 1
    /\ wk' = [wk EXCEPT ![w] = IdleWorker]
    /\ out' = NoResponse
    /\ UNCHANGED <<pool, jobs, queue, transcript_model, icebreaker_model, supabase,
                   store, archive, pl, last, attempts>>

\* --------------------------------------------------------------- polling
\* result = await queue.get(key); if result: ... else: return pending
get_job_result_get(p, job_id) ==
    /\ pl[p].pc = "idle"
    /\ LET result == store[key(job_id)]
       IN IF Truthy(result)
          THEN /\ pl' = [pl EXCEPT ![p] =
                            [pc |-> "delete", job_id |-> job_id,
                             result |-> [has |-> TRUE, val |-> result.val,
                                         src |-> result.src, job |-> result.job,
                                         run |-> result.run]]]
               /\ out' = NoResponse
          ELSE /\ pl' = pl
               /\ out' = [status |-> "pending", job_id |-> job_id,
                          seen |-> IF result.has THEN result.src ELSE "absent",
                          run |-> IF result.has THEN result.run ELSE 0]
    /\ UNCHANGED <<pool, jobs, queue, transcript_model, icebreaker_model, supabase,
                   wk, store, archive, crashes, last, attempts>>

\* Faulty variant of get_job_result_delete: the key is not deleted.
get_job_result_delete_keeps(p) ==
    /\ pl[p].pc = "delete"
    /\ store' = store
    /\ last' = [last EXCEPT ![pl[p].job_id].ev = "consumed",
                            ![pl[p].job_id].served =
                                IF pl[p].result.run = last[pl[p].job_id].n
                                THEN @ + 1 ELSE @]
    /\ pl' = [pl EXCEPT ![p] = IdlePoller]
    /\ out' = [status |-> "complete", job_id |-> pl[p].job_id,
               analysis |-> decode(pl[p].result.val),
               seen |-> pl[p].result.src, from |-> pl[p].result.job,
               run |-> pl[p].result.run]
    /\ UNCHANGED <<pool, jobs, queue, transcript_model, icebreaker_model, supabase,
                   wk, archive, crashes, attempts>>

\* Faulty variant of get_job_result_delete: every result key is deleted.
get_job_result_delete_flushes(p) ==
    /\ pl[p].pc = "delete"
    /\ store' = [k \in Keys |-> Absent]
    /\ last' = [last EXCEPT ![pl[p].job_id].ev = "consumed",
                            ![pl[p].job_id].served =
                                IF pl[p].result.run = last[pl[p].job_id].n
                                THEN @ + 1 ELSE @]
    /\ pl' = [pl EXCEPT ![p] = IdlePoller]
    /\ out' = [status |-> "complete", job_id |-> pl[p].job_id,
               analysis |-> decode(pl[p].result.val),
               seen |-> pl[p].result.src, from |-> pl[p].result.job,
               run |-> pl[p].result.run]
    /\ UNCHANGED <<pool, jobs, queue, transcript_model, icebreaker_model, supabase,
                   wk, archive, crashes, attempts>>

\* await queue.delete(key); return complete with result.decode('utf-8')
get_job_result_delete(p) ==
    /\ pl[p].pc = "delete"
    /\ store' = [store EXCEPT ![key(pl[p].job_id)] = Absent]
    /\ last' = [last EXCEPT ![pl[p].job_id].ev = "consumed",
                            ![pl[p].job_id].served =
                                IF pl[p].result.run = last[pl[p].job_id].n
                                THEN @ + 1 ELSE @]
    /\ pl' = [pl EXCEPT ![p] = IdlePoller]
    /\ out' = [status |-> "complete", job_id |-> pl[p].job_id,
               analysis |-> decode(pl[p].result.val),
               seen |-> pl[p].result.src, from |-> pl[p].result.job,
               run |-> pl[p].result.run]
    /\ UNCHANGED <<pool, jobs, queue, transcript_model, icebreaker_model, supabase,
                   wk, archive, crashes, attempts>>

get_job_result(p) ==
    \/ \E job_id \in JobIds : get_job_result_get(p, job_id)
    \/ get_job_result_delete(p)

\* ------------------------------------------------------------------ time
Expired(k) == store[k].has /\ store[k].ttl <= TickSeconds

\* TickSeconds pass: Redis removes the keys whose time to live has run out.
Tick ==
    /\ \E k \in Keys : store[k].has
    /\ store' = [k \in Keys |->
                    IF store[k].has /\ ~Expired(k)
                    THEN [store[k] EXCEPT !.ttl = @ - TickSeconds,
                                          !.age = @ + TickSeconds]
                    ELSE Absent]
    /\ last' = [j \in JobIds |->
                   IF Expired(key(j)) THEN [last[j] EXCEPT !.ev = "expired"]
                   ELSE last[j]]
    /\ out' = NoResponse
    /\ UNCHANGED <<pool, jobs, queue, transcript_model, icebreaker_model, supabase,
                   wk, archive, pl, crashes, attempts>>

Next ==
    \/ \E item \in Items : queue_transcript_analysis(item)
    \/ \E item \in Items : queue_icebreaker_generation(item)
    \/ \E w \in Workers : Dequeue(w)
    \/ \E w \in Workers : run_transcript_analysis(w)
    \/ \E w \in Workers : run_icebreaker_generation(w)
    \/ \E w \in Workers : Finish(w)
    \/ \E w \in Workers : Crash(w)
    \/ \E p \in Pollers : get_job_result(p)
    \/ Tick

Spec == Init /\ [][Next]_vars

\* A worker that is alive keeps taking jobs and running its handler (the
\* external calls return or raise); crashes are not forced.
LiveSpec ==
    /\ Spec
    /\ \A w \in Workers :
          /\ WF_vars(Dequeue(w))
          /\ WF_vars(run_transcript_analysis(w))
          /\ WF_vars(run_icebreaker_generation(w))
          /\ WF_vars(Finish(w))

\* ================================================================ claims

\* The body is an error message of the worker: it starts with "Error: ".
IsErrorBody(s) ==
    Len(s) >= Len(ErrorPrefix) /\ SubSeq(s, 1, Len(ErrorPrefix)) = ErrorPrefix

\* The latest write under result:{j} came from the success path of a run
\* whose generation returned a non-empty body (an empty one is the failure
\* kind "empty response" of C4).
GeneratedBody(j) == last[j].w = "ok" /\ last[j].body # <<>>

\* out is the response to a poll of j.
PollOf(j) == out.status # None /\ out.job_id = j

\* out is the response to a poll of j that read the latest write under
\* result:{j}.
PollOfLatest(j) == PollOf(j) /\ out.run = last[j].n

\* C1: after a successful run the result stays under result:{job_id} until
\* a poll consumes it (or the TTL runs out); the poll that reads it returns
\* complete with exactly the generated body; once consumed the key is gone,
\* and a poll that finds no key returns pending.
C1_ConsumeOnRead ==
    \A j \in JobIds : GeneratedBody(j) =>
        /\ last[j].ev = "ok" =>
              /\ store[key(j)].has
              /\ decode(store[key(j)].val) = last[j].body
        /\ last[j].ev = "consumed" => ~store[key(j)].has
        /\ PollOfLatest(j) =>
              out.status = "complete" /\ out.analysis = last[j].body
        /\ (PollOf(j) /\ out.seen = "absent") => out.status = "pending"

\* A poll issued after the successful result was consumed once returned
\* pending; the body had a non-ASCII character and surrounding whitespace.
C1_Witness ==
    /\ out.status = "pending"
    /\ out.seen = "absent"
    /\ GeneratedBody(out.job_id)
    /\ last[out.job_id].ev = "consumed"
    /\ last[out.job_id].served = 1
    /\ last[out.job_id].body = <<233>>

\* C2: of the polls of one job_id that race on a single stored result, at
\* most one returns complete.
C2_AtMostOneComplete == \A j \in JobIds : last[j].served <= 1

GenerationFailures == {"generate_raised", "text_raised"}

FailedRun(j) ==
    \/ last[j].w \in {"generate_raised", "text_raised", "insert_raised"}
    \/ last[j].w = "ok" /\ last[j].body = <<>>

\* C4: for each failure kind the worker writes an error body under
\* result:{job_id}, and a poll that reads it does not report pending.
C4_EveryFailureWritesError ==
    \A j \in JobIds : FailedRun(j) =>
        /\ IsErrorBody(last[j].body)
        /\ PollOfLatest(j) => out.status # "pending"

C6_ResultsExpire ==
    /\ \A k \in Keys : store[k].has =>
          /\ store[k].ttl + store[k].age = ResultTTL
          /\ store[k].age < ResultTTL
    /\ \A j \in JobIds : last[j].ev = "expired" =>
          /\ ~store[key(j)].has
          /\ PollOf(j) => out.status = "pending"

\* A poll found nothing and returned pending after an unread generated
\* result had expired.
C6_Witness ==
    /\ out.status = "pending"
    /\ out.seen = "absent"
    /\ last[out.job_id].ev = "expired"
    /\ GeneratedBody(out.job_id)
    /\ last[out.job_id].served = 0

\* The step was taken for job a: by the worker running it or by a poll of
\* it that is deleting its key.
OwnStep(a) ==
    \/ \E w \in Workers : wk[w].job_id = a /\ wk'[w] # wk[w]
    \/ \E p \in Pollers : pl[p].job_id = a /\ pl'[p] # pl[p]

\* An entry after TickSeconds more seconds.
Aged(r) ==
    IF r.has /\ r.ttl > TickSeconds
    THEN [r EXCEPT !.ttl = @ - TickSeconds, !.age = @ + TickSeconds]
    ELSE Absent

\* C7: the entry under result:{a} is changed only by a step of job a (its
\* handler's write, a poll of a deleting it) or by the passing of time;
\* it always holds what a's own handler wrote, a complete poll of a returns
\* a value a's handler wrote, and a poll of a answers pending only when a's
\* own key holds nothing it can return.
C7_NoInterference ==
    /\ [](\A a \in JobIds :
            /\ store[key(a)].has => store[key(a)].job = a
            /\ (PollOf(a) /\ out.status = "complete") => out.from = a
            /\ (PollOf(a) /\ out.status = "pending") => ~Truthy(store[key(a)]))
    /\ [][\A a \in JobIds :
            store'[key(a)] # store[key(a)] =>
                OwnStep(a) \/ store'[key(a)] = Aged(store[key(a)])]_vars

\* A poll of A returned A's result while B's result was in the store.
C7_Witness ==
    /\ out.status = "complete"
    /\ out.job_id = "A"
    /\ out.from = "A"
    /\ store[key("B")].has
    /\ store[key("B")].job = "B"

\* C9 as stated: whenever a poll returns complete, an archival write has
\* been attempted for that job.
C9_CompleteImpliesArchiveAttempt ==
    out.status = "complete" => attempts[out.job_id] > 0

WrittenAfterGeneration == {"ok", "insert_raised"}

\* C9 amended: a run that got past the generation call attempts the
\* archival write before it writes its result, so a poll that returns
\* complete with a result of such a run (the generated body or the error of
\* a failed archival write) comes after an archival attempt for that job.
C9_ArchiveBeforeResult ==
    /\ \A w \in Workers :
          (wk[w].pc = "set" \/ (wk[w].pc = "except" /\ wk[w].e = InsertError)) =>
              attempts[wk[w].job_id] > 0
    /\ \A j \in JobIds :
          last[j].w \in WrittenAfterGeneration => attempts[j] > 0
    /\ (out.status = "complete" /\ out.seen \in WrittenAfterGeneration) =>
          attempts[out.job_id] > 0

\* A poll returned complete with the error of an archival write that was
\* attempted and failed.
C9_Witness ==
    /\ out.status = "complete"
    /\ out.seen = "insert_raised"
    /\ attempts[out.job_id] = 1
    /\ archive[out.job_id] = <<>>

\* C10: a submit that failed on the queue answers with an error, and its
\* job_id is never on the queue, never run, never written to the Result
\* Store and never archived; what is on the queue was answered queued.
C10_FailedSubmitLeavesNothing ==
    /\ \A j \in queue : jobs[j].status = "queued"
    /\ \A j \in JobIds : jobs[j].status = "error" =>
          /\ j \notin queue
          /\ \A w \in Workers : wk[w].job_id # j
          /\ ~store[key(j)].has
          /\ last[j].n = 0
          /\ archive[j] = <<>>
          /\ attempts[j] = 0

\* One submit failed on the queue and left nothing, while the job of
\* another submit was processed and archived.
C10_Witness ==
    \E j, k \in JobIds :
        /\ jobs[j].status = "error"
        /\ jobs[k].status = "queued"
        /\ last[k].n > 0
        /\ archive[k] # <<>>
        /\ k \notin queue

\* C11: every submitted job has at most one archival record, over every
\* sequence of deliveries of the job, a redelivery after a worker crash
\* included.
C11_AtMostOneArchivalRecord ==
    \A j \in JobIds : Len(archive[j]) <= 1

\* C12: a poll of a job_id whose key is absent answers pending, and a poll
\* that answers pending leaves the Result Store, the Job Queue and the
\* archive as they were; the read of a poll that will answer complete
\* changes nothing either, and the step that answers complete changes
\* only result:{job_id}, which it deletes.
C12_PollFrame ==
    [][/\ out'.status = "pending" =>
             /\ ~Truthy(store[key(out'.job_id)])
             /\ UNCHANGED <<store, queue, archive, jobs, attempts>>
       /\ \A p \in Pollers :
             (pl[p].pc = "idle" /\ pl'[p].pc = "delete") =>
                 /\ store[key(pl'[p].job_id)].has
                 /\ UNCHANGED <<store, queue, archive, jobs, attempts>>
       /\ out'.status = "complete" =>
             /\ store' = [store EXCEPT ![key(out'.job_id)] = Absent]
             /\ UNCHANGED <<queue, archive, jobs, attempts>>]_vars

\* A poll of a job_id whose result was consumed earlier answered pending
\* while the result of the other job was in the store.
C12_Witness ==
    /\ out.status = "pending"
    /\ out.seen = "absent"
    /\ last[out.job_id].ev = "consumed"
    /\ \E k \in JobIds \ {out.job_id} : store[key(k)].has /\ archive[k] # <<>>

\* The latest thing that happened to the result of j is that a poll
\* consumed it or that its TTL ran out.
Gone(j) == last[j].ev \in {"consumed", "expired"}

\* C13: once the result of a job_id has been consumed by a poll or has
\* expired, no later step (a redelivered run of the job included) puts a
\* result under result:{job_id} that a poll would return as complete.
C13_GoneStaysGone ==
    [][\A j \in JobIds : Gone(j) => ~Truthy(store'[key(j)])]_vars

\* Job j was accepted and the handler of its kind finds a dependency
\* uninitialized: its generation model or the archival sink is None.
Uninitialized(j) ==
    /\ jobs[j].status = "queued"
    /\ \/ ~supabase
       \/ jobs[j].kind = "run_transcript_analysis" /\ ~transcript_model
       \/ jobs[j].kind = "run_icebreaker_generation" /\ ~icebreaker_model

\* C14: when the generation model or the archival sink is uninitialized,
\* a run of the job never reaches the generation call or the archival
\* insert and leaves no archival record; it writes exactly one result, the
\* error "Error: Worker not initialized", under result:{job_id} with the
\* fixed TTL; and the worker does not halt: every such job, a later one
\* included, gets its error result and is finished.
C14_UninitializedWritesError ==
    /\ [](\A j \in JobIds : Uninitialized(j) =>
            /\ attempts[j] = 0
            /\ archive[j] = <<>>
            /\ \A w \in Workers : wk[w].job_id = j =>
                  /\ wk[w].pc \in {"start", "done"}
                  /\ last[j].n = wk[w].writes + (IF wk[w].pc = "done" THEN 1 ELSE 0)
            /\ last[j].n > 0 =>
                  /\ last[j].w = "uninit"
                  /\ last[j].body = ErrorBody(NotInitialized)
            /\ store[key(j)].has =>
                  /\ decode(store[key(j)].val) = ErrorBody(NotInitialized)
                  /\ store[key(j)].ttl + store[key(j)].age = ResultTTL)
    /\ \A j \in JobIds :
          Uninitialized(j) ~> (last[j].n > 0 /\ j \notin queue)

\* Two jobs were run with a dependency uninitialized: each got the error
\* result, both were finished, and both workers are idle again.
C14_Witness ==
    /\ \A j \in JobIds :
          /\ Uninitialized(j)
          /\ last[j].w = "uninit"
          /\ j \notin queue
          /\ archive[j] = <<>>
    /\ \A w \in Workers : wk[w].pc = "idle"

\* Archival record of job j holding the generated output body.
Archived(j, body) ==
    \E i \in 1..Len(archive[j]) : archive[j][i].analysis = body

\* C15: whenever result:{job_id} holds a body written by the success path
\* of a run, and whenever a poll has returned such a body, the archive
\* already has a record of that job with the same generated output.
C15_GeneratedBodyIsArchived ==
    /\ \A j \in JobIds :
          (store[key(j)].has /\ store[key(j)].src = "ok") =>
              Archived(j, decode(store[key(j)].val))
    /\ \A p \in Pollers :
          (pl[p].pc = "delete" /\ pl[p].result.src = "ok") =>
              Archived(pl[p].job_id, decode(pl[p].result.val))
    /\ (out.status = "complete" /\ out.seen = "ok") =>
          Archived(out.job_id, out.analysis)

\* A poll returned a generated body whose archival record is in the
\* archive, after the key was deleted from the store.
C15_Witness ==
    /\ out.status = "complete"
    /\ out.seen = "ok"
    /\ out.analysis # <<>>
    /\ ~IsErrorBody(out.analysis)
    /\ ~store[key(out.job_id)].has
    /\ Archived(out.job_id, out.analysis)

\* C16: under every interleaving of a poll's get and delete with worker
\* writes to the same key, the value the poll's delete removes from
\* result:{job_id} is the value that poll read and returns.
C16_DeleteRemovesWhatWasRead ==
    [][\A p \in Pollers :
          (/\ pl[p].pc = "delete"
           /\ pl'[p].pc = "idle"
           /\ store[key(pl[p].job_id)].has) =>
              store[key(pl[p].job_id)].val = pl[p].result.val]_vars

====
